---- MODULE Spec2Model ----
(***************************************************************************)
(* Denormalised counters of the 3D model sharing application.              *)
(*                                                                         *)
(* The relational store holds the models table (with the four cached      *)
(* counters) and the fact tables likes, comments, downloads, model_views.  *)
(* Request handlers run concurrently; every await of a handler is a point  *)
(* where other handlers may run, so a handler is a sequence of atomic      *)
(* steps, one per store statement.  A statement and the row triggers it    *)
(* fires are one atomic step (one Postgres statement).                     *)
(* The backend routes reach the store through the ORM, so the row-level    *)
(* security policies of models and facts are not modelled; the orders      *)
(* table has no route, and its policies are what its writers are held to.  *)
(***************************************************************************)
EXTENDS Integers, FiniteSets, Sequences, TLC

\* ---------------------------------------------------------------- bounds
NumModels == 1      \* rows of public.models present at the start
NumUsers == 2       \* authenticated users
NumReqs == 3        \* requests handled (each request slot is used once)
NumMixedReqs == 2   \* requests handled where several routes are mixed
NumOrders == 2      \* rows ever inserted into orders
NumSuffixes == 1    \* suffixes a candidate username may carry

Models == 1..NumModels
Users == 1..NumUsers
Reqs == 1..NumReqs
MixedReqs == 1..NumMixedReqs

\* an id that never names a row of public.models
MissingId == NumModels + 1
\* a path parameter for which parseInt gives NaN
NaNId == 0
\* the ids a request may carry
IdInputs == Models \cup {MissingId, NaNId}
\* req.user is absent (optionalAuth) / isAuthenticated is false
Anonymous == 0

VARIABLES
    models,        \* public.models: id -> row
    likes,         \* public.likes: set of rows
    comments,      \* public.comments: set of rows
    downloads,     \* public.downloads: set of rows
    model_views,   \* public.model_views: set of rows
    reqs,          \* request slot -> the handler's local state and response
    profiles,      \* public.profiles: user -> role
    usernames,     \* public.profiles: user -> username and display_name of the row
    orders,        \* orders: set of rows
    follows        \* public.follows: set of rows

vars == <<models, likes, comments, downloads, model_views, reqs, profiles, usernames,
          orders, follows>>
facts == <<likes, comments, downloads, model_views>>
\* the tables the handlers of models and facts never write
rest == <<profiles, usernames, orders, follows>>

\* ---------------------------------------------------------------- store
\* a fact row; the id is the uuid generated for the insert, one per request
Row(id, m, u) == [id |-> id, model_id |-> m, user_id |-> u]

RowsOf(table, m) == {row \in table : row.model_id = m}

\* the row of public.models exists
Live(m) == m \in Models /\ models[m].st = "live"

Counters(m) ==
    <<models[m].like_count, models[m].comment_count,
      models[m].download_count, models[m].view_count>>

\* two triggers on the same table both apply the delta
update_model_counts_twice(op, cnt) ==
    IF op = "INSERT" THEN cnt + 2 ELSE cnt - 2

\* the function handles INSERT only
update_model_counts_insert_only(op, cnt) ==
    IF op = "INSERT" THEN cnt + 1 ELSE cnt

\* the delta a row trigger applies to the counter of its table
update_model_counts(op, cnt) ==
    IF op = "INSERT" THEN cnt + 1 ELSE cnt - 1

\* models after the AFTER INSERT / AFTER DELETE row trigger of `field` on model m
Trigger(ms, op, field, m) ==
    IF m \in Models /\ ms[m].st = "live"
    THEN [ms EXCEPT ![m][field] = update_model_counts(op, ms[m][field])]
    ELSE ms

\* the likes table without its UNIQUE constraint
NoUniqueConstraint(m, u) == FALSE

\* UNIQUE(model_id, user_id) on public.likes rejects the insert
UniqueViolation(m, u) == \E row \in likes : row.model_id = m /\ row.user_id = u

\* fact tables without the foreign key to public.models
NoForeignKey(m) == FALSE

\* model_id REFERENCES public.models(id) rejects the insert
FkViolation(m) == ~Live(m)

\* a lookup without the isPublic condition
PublicModelUnfiltered(m) == Live(m)

\* findFirst({id, isPublic: true}) / .eq('id', id).eq('is_public', true)
PublicModel(m) == Live(m) /\ models[m].is_public

\* ---------------------------------------------------------------- requests
NoSeen == [found |-> FALSE, is_free |-> FALSE, user_id |-> 0, cnt |-> 0, file_path |-> FALSE]

\* req.body of the owner routes; isPublic is "true", "false" or "unset"
NoBody == [title |-> 0, isPublic |-> "unset"]

\* the totals a statistics response carries; -1 is a count not made (yet)
StatKinds == {"totalViews", "totalDownloads", "totalLikes", "totalComments"}
NoStats == [k \in StatKinds |-> -1]

IdleReq ==
    [kind |-> "none", pc |-> "idle", user |-> 0, model |-> 0,
     seen |-> NoSeen, existing |-> 0, body |-> NoBody, rowed |-> FALSE,
     ctrfail |-> FALSE, resp |-> 0, out |-> "none", stats |-> NoStats,
     returned |-> {}, whose |-> 0, isUploading |-> FALSE, uploadProgress |-> 0,
     base |-> "", attempt |-> 0, calls |-> 0, code |-> "none"]

\* request slots are taken in order
CanStart(r) ==
    /\ reqs[r].pc = "idle"
    /\ IF r = 1 THEN TRUE ELSE reqs[r - 1].pc # "idle"

Begin(r, kind, u, m) == [IdleReq EXCEPT !.kind = kind, !.user = u, !.model = m]

\* the handler has answered; its locals are gone
Reply(rq, status, out) ==
    [rq EXCEPT !.pc = "done", !.resp = status, !.out = out,
               !.seen = NoSeen, !.existing = 0, !.body = NoBody]

At(r, kind, pc) == reqs[r].kind = kind /\ reqs[r].pc = pc

\* ---------------------------------------------------------------- init
InitModel(m, pub, free, file) ==
    [st |-> "live", is_public |-> pub, is_free |-> free, file_path |-> file,
     user_id |-> ((m - 1) % NumUsers) + 1,
     title |-> 0, thumbnail_url |-> 0, preview_urls |-> 0,
     like_count |-> 0, comment_count |-> 0, download_count |-> 0, view_count |-> 0]

\* a username is a base name followed by a suffix; suffix 0 is the empty one
BaseNames == {"ann"}
Names == {<<b, sfx>> : b \in BaseNames, sfx \in 0..NumSuffixes}

\* the columns id, username, display_name of a row of public.profiles
NoProfile == [st |-> "none", username |-> <<"", 0>>, display_name |-> <<"", 0>>]
Profile(username, display_name) ==
    [st |-> "live", username |-> username, display_name |-> display_name]

\* the sample profiles: one row per user, the usernames distinct
SampleProfiles == [u \in Users |-> Profile(<<"sample", u>>, <<"sample", u>>)]

\* role VARCHAR(20) CHECK (role IN (...))
Roles == {"USER", "CREATOR", "MODERATOR", "ADMIN"}

InitWithRoles(Pub, Free, File, R) ==
    /\ models \in [Models -> {InitModel(m, p, f, fp) :
                                m \in Models, p \in Pub, f \in Free, fp \in File}]
    /\ \A m \in Models : models[m].user_id = ((m - 1) % NumUsers) + 1
    /\ likes = {}
    /\ comments = {}
    /\ downloads = {}
    /\ model_views = {}
    /\ reqs = [r \in Reqs |-> IdleReq]
    /\ profiles \in [Users -> R]
    /\ usernames = SampleProfiles
    /\ orders = {}
    /\ follows = {}

\* every user is a creator
InitWith(Pub, Free, File) == InitWithRoles(Pub, Free, File, {"CREATOR"})

\* ---------------------------------------------------------------- POST /models/:id/like
\* parseInt, then findFirst({id, isPublic: true})
LikeStart(r, u, m) ==
    /\ CanStart(r)
    /\ reqs' = [reqs EXCEPT ![r] =
          IF m = NaNId THEN Reply(Begin(r, "like", u, m), 400, "invalid")
          ELSE IF ~PublicModel(m)
               THEN Reply(Begin(r, "like", u, m), 404, "notfound")
               ELSE [Begin(r, "like", u, m) EXCEPT !.pc = "findLike"]]
    /\ UNCHANGED <<models, facts>>
    /\ UNCHANGED rest

\* the id of the like row of (m, u), 0 when there is none
ExistingLike(m, u) ==
    IF \E row \in likes : row.model_id = m /\ row.user_id = u
    THEN (CHOOSE row \in likes : row.model_id = m /\ row.user_id = u).id
    ELSE 0

\* like.findFirst({modelId, userId})
LikeFindExisting(r) ==
    /\ At(r, "like", "findLike")
    /\ reqs' = [reqs EXCEPT ![r].existing = ExistingLike(reqs[r].model, reqs[r].user),
                            ![r].pc = "write"]
    /\ UNCHANGED <<models, facts>>
    /\ UNCHANGED rest

\* a delete that reports success whether or not a row had the id
LikeRowDeletedAlways(id) == TRUE

\* like.delete({where: {id}}) deletes a row (it throws when no row has the id)
LikeRowDeleted(id) == \E row \in likes : row.id = id

\* the unlike branch
LikeDelete(r) ==
    /\ At(r, "like", "write")
    /\ reqs[r].existing # 0
    /\ \E ok \in BOOLEAN :
         IF ok /\ LikeRowDeleted(reqs[r].existing)
         THEN /\ likes' = {row \in likes : row.id # reqs[r].existing}
              /\ models' = Trigger(models, "DELETE", "like_count", reqs[r].model)
              /\ reqs' = [reqs EXCEPT ![r] = Reply(reqs[r], 200, "unliked")]
         ELSE /\ reqs' = [reqs EXCEPT ![r] =
                    Reply(reqs[r], 500, IF ok THEN "gone" ELSE "error")]
              /\ UNCHANGED <<models, likes>>
    /\ UNCHANGED <<comments, downloads, model_views>>
    /\ UNCHANGED rest

\* the like branch
LikeCreate(r) ==
    /\ At(r, "like", "write")
    /\ reqs[r].existing = 0
    /\ \E ok \in BOOLEAN :
         IF ok /\ ~UniqueViolation(reqs[r].model, reqs[r].user) /\ ~FkViolation(reqs[r].model)
         THEN /\ likes' = likes \cup {Row(r, reqs[r].model, reqs[r].user)}
              /\ models' = Trigger(models, "INSERT", "like_count", reqs[r].model)
              /\ reqs' = [reqs EXCEPT ![r] = [Reply(reqs[r], 200, "liked") EXCEPT !.rowed = TRUE]]
         ELSE /\ reqs' = [reqs EXCEPT ![r] =
                    Reply(reqs[r], 500,
                          IF ok /\ UniqueViolation(reqs[r].model, reqs[r].user)
                          THEN "conflict" ELSE "error")]
              /\ UNCHANGED <<models, likes>>
    /\ UNCHANGED <<comments, downloads, model_views>>
    /\ UNCHANGED rest

\* ---------------------------------------------------------------- POST /models/:id/comments
\* validationResult, parseInt, then findFirst({id, isPublic: true})
CommentStart(r, u, m, valid) ==
    /\ CanStart(r)
    /\ reqs' = [reqs EXCEPT ![r] =
          IF ~valid \/ m = NaNId THEN Reply(Begin(r, "comment", u, m), 400, "invalid")
          ELSE IF ~PublicModel(m)
               THEN Reply(Begin(r, "comment", u, m), 404, "notfound")
               ELSE [Begin(r, "comment", u, m) EXCEPT !.pc = "write"]]
    /\ UNCHANGED <<models, facts>>
    /\ UNCHANGED rest

\* comment.create
CommentCreate(r) ==
    /\ At(r, "comment", "write")
    /\ \E ok \in BOOLEAN :
         IF ok /\ ~FkViolation(reqs[r].model)
         THEN /\ comments' = comments \cup {Row(r, reqs[r].model, reqs[r].user)}
              /\ models' = Trigger(models, "INSERT", "comment_count", reqs[r].model)
              /\ reqs' = [reqs EXCEPT ![r] = [Reply(reqs[r], 201, "commented") EXCEPT !.rowed = TRUE]]
         ELSE /\ reqs' = [reqs EXCEPT ![r] = Reply(reqs[r], 500, "error")]
              /\ UNCHANGED <<models, comments>>
    /\ UNCHANGED <<likes, downloads, model_views>>
    /\ UNCHANGED rest

\* ---------------------------------------------------------------- POST /downloads/:modelId
\* the permission check with the owner test the wrong way round
RequiresPaymentOfOwner(m, u) == ~models[m].is_free /\ models[m].user_id = u

\* the permission check on the fetched model
RequiresPayment(m, u) == ~models[m].is_free /\ models[m].user_id # u

\* an insert that replaces the earlier download row of the same user and model
UpsertDownload(table, row) ==
    {x \in table : ~(x.model_id = row.model_id /\ x.user_id = row.user_id)} \cup {row}

\* .from('downloads').insert(...): every download adds a row
InsertDownload(table, row) == table \cup {row}

\* select the public model, then the permission check
DownloadStart(r, u, m) ==
    /\ CanStart(r)
    /\ reqs' = [reqs EXCEPT ![r] =
          IF ~PublicModel(m)
          THEN Reply(Begin(r, "download", u, m), 404, "notfound")
          ELSE IF RequiresPayment(m, u)
               THEN Reply(Begin(r, "download", u, m), 403, "payment")
               ELSE [Begin(r, "download", u, m) EXCEPT !.pc = "insert"]]
    /\ UNCHANGED <<models, facts>>
    /\ UNCHANGED rest

\* insert into downloads; an error is logged and the handler goes on
DownloadInsert(r) ==
    /\ At(r, "download", "insert")
    /\ \E ok \in BOOLEAN :
         IF ok /\ ~FkViolation(reqs[r].model)
         THEN /\ downloads' = InsertDownload(downloads, Row(r, reqs[r].model, reqs[r].user))
              /\ models' = Trigger(models, "INSERT", "download_count", reqs[r].model)
              /\ reqs' = [reqs EXCEPT ![r].pc = "file", ![r].rowed = TRUE]
         ELSE /\ reqs' = [reqs EXCEPT ![r].pc = "file"]
              /\ UNCHANGED <<models, downloads>>
    /\ UNCHANGED <<likes, comments, model_views>>
    /\ UNCHANGED rest

\* storage.download, then the file is sent
DownloadFile(r) ==
    /\ At(r, "download", "file")
    /\ \E ok \in BOOLEAN :
         reqs' = [reqs EXCEPT ![r] =
            IF ok THEN Reply(reqs[r], 200, "file") ELSE Reply(reqs[r], 500, "filefailed")]
    /\ UNCHANGED <<models, facts>>
    /\ UNCHANGED rest

\* ---------------------------------------------------------------- GET /models/:id
\* a row of public.models as a read hands it to the requester
Shown(m) == [id |-> m, is_public |-> models[m].is_public, user_id |-> models[m].user_id]

\* model.findUnique({id})
ViewStart(r, u, m) ==
    /\ CanStart(r)
    /\ m # NaNId
    /\ reqs' = [reqs EXCEPT ![r] =
          IF ~Live(m)
          THEN Reply(Begin(r, "view", u, m), 404, "notfound")
          ELSE [Begin(r, "view", u, m) EXCEPT
                   !.pc = "update", !.seen.found = TRUE, !.seen.cnt = models[m].view_count,
                   !.returned = {Shown(m)}]]
    /\ UNCHANGED <<models, facts>>
    /\ UNCHANGED rest

\* the handler writes the count it fetched, plus one
ViewIncrementOfFetched(cur, seen) == seen + 1

\* data: { viewCount: { increment: 1 } }
ViewIncrement(cur, seen) == cur + 1

\* model.update; the response carries the model as it was found
ViewUpdate(r) ==
    /\ At(r, "view", "update")
    /\ \E ok \in BOOLEAN :
         IF ok /\ Live(reqs[r].model)
         THEN /\ models' = [models EXCEPT ![reqs[r].model].view_count =
                               ViewIncrement(@, reqs[r].seen.cnt)]
              /\ reqs' = [reqs EXCEPT ![r] = Reply(reqs[r], 200, "model")]
         ELSE /\ reqs' = [reqs EXCEPT ![r] = Reply([reqs[r] EXCEPT !.returned = {}], 500, "error")]
              /\ UNCHANGED models
    /\ UNCHANGED facts
    /\ UNCHANGED rest

\* ---------------------------------------------------------------- ModelDetail page
\* fetchModelDetails: the page keeps the row it fetched in its `model` state
FetchModelDetails(r, u, m) ==
    /\ CanStart(r)
    /\ m # NaNId
    /\ reqs' = [reqs EXCEPT ![r] =
          IF ~Live(m)
          THEN Reply(Begin(r, "page", u, m), 0, "loadfailed")
          ELSE [Begin(r, "page", u, m) EXCEPT
                   !.pc = "page", !.seen.found = TRUE,
                   !.seen.cnt = models[m].download_count,
                   !.seen.file_path = models[m].file_path]]
    /\ UNCHANGED <<models, facts>>
    /\ UNCHANGED rest

\* the guards without the file_path test
DownloadGuardWithoutFile(rq, ok) ==
    IF rq.user = Anonymous THEN "login"
    ELSE IF ~ok THEN "failed"
    ELSE "go"

\* the guards of handleDownload, in order: isAuthenticated, model.file_path,
\* the error of createSignedUrl
DownloadGuard(rq, ok) ==
    IF rq.user = Anonymous THEN "login"
    ELSE IF ~rq.seen.file_path THEN "nofile"
    ELSE IF ~ok THEN "failed"
    ELSE "go"

\* handleDownload up to createSignedUrl
HandleDownload(r) ==
    /\ At(r, "page", "page")
    /\ \E ok \in BOOLEAN :
         reqs' = [reqs EXCEPT ![r] =
            IF DownloadGuard(reqs[r], ok) = "go"
            THEN [reqs[r] EXCEPT !.pc = "insert"]
            ELSE Reply(reqs[r], 0, DownloadGuard(reqs[r], ok))]
    /\ UNCHANGED <<models, facts>>
    /\ UNCHANGED rest

\* handleDownload: insert into downloads; an error is logged
HandleDownloadInsert(r) ==
    /\ At(r, "page", "insert")
    /\ \E ok \in BOOLEAN :
         IF ok /\ ~FkViolation(reqs[r].model)
         THEN /\ downloads' = InsertDownload(downloads, Row(r, reqs[r].model, reqs[r].user))
              /\ models' = Trigger(models, "INSERT", "download_count", reqs[r].model)
              /\ reqs' = [reqs EXCEPT ![r].pc = "update", ![r].rowed = TRUE]
         ELSE /\ reqs' = [reqs EXCEPT ![r].pc = "update"]
              /\ UNCHANGED <<models, downloads>>
    /\ UNCHANGED <<likes, comments, model_views>>
    /\ UNCHANGED rest

\* handleDownload throwing updateError to its catch block
ThrowUpdateError(rq) == Reply(rq, 0, "failed")

\* what handleDownload does with updateError: it is logged, the download starts
OnUpdateError(rq) == Reply(rq, 0, "started")

\* the value handleDownload writes: (model.downloads_count || 0) + 1
DownloadsCountWritten(cur, seen) == seen + 1

\* handleDownload: update models set downloads_count, then the download starts
HandleDownloadUpdate(r) ==
    /\ At(r, "page", "update")
    /\ \E ok \in BOOLEAN :
         IF ok
         THEN /\ models' = IF Live(reqs[r].model)
                           THEN [models EXCEPT ![reqs[r].model].download_count =
                                    DownloadsCountWritten(@, reqs[r].seen.cnt)]
                           ELSE models
              /\ reqs' = [reqs EXCEPT ![r] = Reply(reqs[r], 0, "started")]
         ELSE /\ reqs' = [reqs EXCEPT ![r] = OnUpdateError([reqs[r] EXCEPT !.ctrfail = TRUE])]
              /\ UNCHANGED models
    /\ UNCHANGED facts
    /\ UNCHANGED rest

\* ---------------------------------------------------------------- owner routes
\* a lookup by id alone
OwnsUnchecked(u, m) == Live(m)

\* findFirst({id, creatorId: req.user.id})
Owns(u, m) == Live(m) /\ models[m].user_id = u

\* the first part of an owner route: validation, parseInt, the ownership lookup
OwnerLookup(r, kind, u, m, valid, checksId) ==
    IF ~valid \/ (checksId /\ m = NaNId) THEN Reply(Begin(r, kind, u, m), 400, "invalid")
    ELSE IF ~Owns(u, m) THEN Reply(Begin(r, kind, u, m), 404, "notfound")
    ELSE [Begin(r, kind, u, m) EXCEPT !.pc = "write"]

\* the is_public the update leaves: an undefined isPublic is not written
NewIsPublic(old, isPublic) ==
    IF isPublic = "unset" THEN old ELSE (isPublic = "true")

\* PUT /models/:id
PutStart(r, u, m, valid, ip) ==
    /\ CanStart(r)
    /\ reqs' = [reqs EXCEPT ![r] =
          [OwnerLookup(r, "put", u, m, valid, TRUE) EXCEPT
              !.body = [title |-> 1, isPublic |-> ip]]]
    /\ UNCHANGED <<models, facts>>
    /\ UNCHANGED rest

\* a PUT that also writes the counters the upload route initialises
PutDataWithCounters(row, body) ==
    [row EXCEPT !.title = body.title,
                !.is_public = NewIsPublic(row.is_public, body.isPublic),
                !.view_count = 0, !.download_count = 0, !.like_count = 0]

\* the row PUT writes
PutData(row, body) ==
    [row EXCEPT !.title = body.title,
                !.is_public = NewIsPublic(row.is_public, body.isPublic)]

\* the row POST /:id/thumbnail writes
ThumbnailData(row) == [row EXCEPT !.thumbnail_url = 1]

\* the row POST /:id/previews writes
PreviewsData(row) == [row EXCEPT !.preview_urls = 1]

\* the row PATCH /uploads/:id/status writes
StatusData(row, body) ==
    [row EXCEPT !.is_public = NewIsPublic(row.is_public, body.isPublic)]

\* model.update({where: {id}}): it throws when the row is gone
OwnerWrite(r, kind, newRow) ==
    /\ At(r, kind, "write")
    /\ \E ok \in BOOLEAN :
         IF ok /\ Live(reqs[r].model)
         THEN /\ models' = [models EXCEPT ![reqs[r].model] = newRow]
              /\ reqs' = [reqs EXCEPT ![r] = Reply(reqs[r], 200, "updated")]
         ELSE /\ reqs' = [reqs EXCEPT ![r] = Reply(reqs[r], 500, "error")]
              /\ UNCHANGED models
    /\ UNCHANGED facts
    /\ UNCHANGED rest

PutWrite(r) ==
    OwnerWrite(r, "put", PutData(models[reqs[r].model], reqs[r].body))

\* POST /models/:id/thumbnail
ThumbnailStart(r, u, m, file) ==
    /\ CanStart(r)
    /\ reqs' = [reqs EXCEPT ![r] = OwnerLookup(r, "thumbnail", u, m, file, TRUE)]
    /\ UNCHANGED <<models, facts>>
    /\ UNCHANGED rest

ThumbnailWrite(r) ==
    OwnerWrite(r, "thumbnail", ThumbnailData(models[reqs[r].model]))

\* POST /models/:id/previews
PreviewsStart(r, u, m, files) ==
    /\ CanStart(r)
    /\ reqs' = [reqs EXCEPT ![r] = OwnerLookup(r, "previews", u, m, files, TRUE)]
    /\ UNCHANGED <<models, facts>>
    /\ UNCHANGED rest

PreviewsWrite(r) ==
    OwnerWrite(r, "previews", PreviewsData(models[reqs[r].model]))

\* PATCH /dashboard/uploads/:id/status
StatusStart(r, u, m, ip) ==
    /\ CanStart(r)
    /\ reqs' = [reqs EXCEPT ![r] =
          [OwnerLookup(r, "status", u, m, TRUE, FALSE) EXCEPT
              !.body = [title |-> 0, isPublic |-> ip]]]
    /\ UNCHANGED <<models, facts>>
    /\ UNCHANGED rest

StatusWrite(r) ==
    OwnerWrite(r, "status", StatusData(models[reqs[r].model], reqs[r].body))

\* DELETE /models/:id
DeleteStart(r, u, m) ==
    /\ CanStart(r)
    /\ reqs' = [reqs EXCEPT ![r] = OwnerLookup(r, "delete", u, m, TRUE, TRUE)]
    /\ UNCHANGED <<models, facts>>
    /\ UNCHANGED rest

\* a row of public.models that was deleted
GoneRow(m) == [InitModel(m, FALSE, FALSE, FALSE) EXCEPT !.st = "gone"]

\* ON DELETE CASCADE of the fact tables
Cascade(table, m) == {row \in table : row.model_id # m}

\* model.delete({where: {id}})
DeleteWrite(r) ==
    /\ At(r, "delete", "write")
    /\ \E ok \in BOOLEAN :
         IF ok /\ Live(reqs[r].model)
         THEN /\ models' = [models EXCEPT ![reqs[r].model] = GoneRow(reqs[r].model)]
              /\ likes' = Cascade(likes, reqs[r].model)
              /\ comments' = Cascade(comments, reqs[r].model)
              /\ downloads' = Cascade(downloads, reqs[r].model)
              /\ model_views' = Cascade(model_views, reqs[r].model)
              /\ orders' = Cascade(orders, reqs[r].model)
              /\ reqs' = [reqs EXCEPT ![r] = Reply(reqs[r], 200, "deleted")]
         ELSE /\ reqs' = [reqs EXCEPT ![r] = Reply(reqs[r], 500, "error")]
              /\ UNCHANGED <<models, facts, orders>>
    /\ UNCHANGED <<profiles, usernames, follows>>

\* ---------------------------------------------------------------- creating a model
\* an id the store has not given out yet
NoRow(m) == [InitModel(m, FALSE, FALSE, FALSE) EXCEPT !.st = "none"]

Unused(m) == m \in Models /\ models[m].st = "none"

\* the id the next insert into public.models gets
NextId == CHOOSE m \in Models : Unused(m) /\ \A k \in Models : Unused(k) => m <= k

\* the store holds no model yet
InitNoModels ==
    /\ models = [m \in Models |-> NoRow(m)]
    /\ likes = {}
    /\ comments = {}
    /\ downloads = {}
    /\ model_views = {}
    /\ reqs = [r \in Reqs |-> IdleReq]
    /\ profiles = [u \in Users |-> "CREATOR"]
    /\ usernames = SampleProfiles
    /\ orders = {}
    /\ follows = {}

\* an upload that counts itself as the first view
UploadDataCounted(m, u, ip) ==
    [InitModel(m, NewIsPublic(TRUE, ip), TRUE, TRUE) EXCEPT
        !.user_id = u, !.title = 1,
        !.view_count = 1, !.download_count = 0, !.like_count = 0]

\* the row POST /models creates: isPublic defaults to true, the counters are 0
UploadData(m, u, ip) ==
    [InitModel(m, NewIsPublic(TRUE, ip), TRUE, TRUE) EXCEPT
        !.user_id = u, !.title = 1,
        !.view_count = 0, !.download_count = 0, !.like_count = 0]

\* POST /models: validation and the file check, then model.create
UploadModel(r, u, valid, ip) ==
    /\ CanStart(r)
    /\ \E ok \in BOOLEAN :
         IF ~valid
         THEN /\ reqs' = [reqs EXCEPT ![r] = Reply(Begin(r, "upload", u, 0), 400, "invalid")]
              /\ UNCHANGED models
         ELSE IF ok
         THEN /\ \E m \in Models : Unused(m)
              /\ models' = [models EXCEPT ![NextId] = UploadData(NextId, u, ip)]
              /\ reqs' = [reqs EXCEPT ![r] = Reply(Begin(r, "upload", u, NextId), 201, "uploaded")]
         ELSE /\ reqs' = [reqs EXCEPT ![r] = Reply(Begin(r, "upload", u, 0), 500, "error")]
              /\ UNCHANGED models
    /\ UNCHANGED <<facts, rest>>

\* a finally block that leaves the form as the try block left it
FinallyNothing(rq) == rq

\* the upload form: the finally block of handleSubmit
Finally(rq) == [rq EXCEPT !.isUploading = FALSE, !.uploadProgress = 0]

\* the upload form: validateForm, then setIsUploading(true), setUploadProgress(0)
HandleSubmit(r, u, valid) ==
    /\ CanStart(r)
    /\ reqs' = [reqs EXCEPT ![r] =
          IF ~valid THEN Reply(Begin(r, "submit", u, 0), 0, "invalid")
          ELSE [Begin(r, "submit", u, 0) EXCEPT
                   !.pc = "modelfile", !.isUploading = TRUE, !.uploadProgress = 0]]
    /\ UNCHANGED <<models, facts, rest>>

\* the upload form: storage upload of the model file
SubmitModelFile(r) ==
    /\ At(r, "submit", "modelfile")
    /\ \E ok \in BOOLEAN :
         reqs' = [reqs EXCEPT ![r] =
            IF ok THEN [reqs[r] EXCEPT !.pc = "thumbnail", !.uploadProgress = 30]
            ELSE Reply(Finally(reqs[r]), 0, "failed")]
    /\ UNCHANGED <<models, facts, rest>>

\* the upload form: storage upload of the thumbnail
SubmitThumbnail(r) ==
    /\ At(r, "submit", "thumbnail")
    /\ \E ok \in BOOLEAN :
         reqs' = [reqs EXCEPT ![r] =
            IF ok THEN [reqs[r] EXCEPT !.pc = "insert", !.uploadProgress = 60]
            ELSE Reply(Finally(reqs[r]), 0, "failed")]
    /\ UNCHANGED <<models, facts, rest>>

\* the row the upload form inserts: it names no counter and no flag, so the
\* column defaults apply
ModelRecordData(m, u) ==
    [InitModel(m, TRUE, TRUE, TRUE) EXCEPT !.user_id = u, !.title = 1, !.thumbnail_url = 1]

\* the upload form: insert into models, then the page of the new model
SubmitInsert(r) ==
    /\ At(r, "submit", "insert")
    /\ \E ok \in BOOLEAN :
         IF ok
         THEN /\ \E m \in Models : Unused(m)
              /\ models' = [models EXCEPT ![NextId] = ModelRecordData(NextId, reqs[r].user)]
              /\ reqs' = [reqs EXCEPT ![r] =
                    Reply(Finally([reqs[r] EXCEPT !.model = NextId, !.uploadProgress = 100]),
                          0, "uploaded")]
         ELSE /\ reqs' = [reqs EXCEPT ![r] = Reply(Finally(reqs[r]), 0, "failed")]
              /\ UNCHANGED models
    /\ UNCHANGED <<facts, rest>>

\* ---------------------------------------------------------------- statistics
\* GET /downloads/:modelId/stats: one select of the download rows of the model
DownloadStats(r, m) ==
    /\ CanStart(r)
    /\ \E ok \in BOOLEAN :
         reqs' = [reqs EXCEPT ![r] =
            IF ok
            THEN [Reply(Begin(r, "dlstats", Anonymous, m), 200, "stats") EXCEPT
                     !.stats.totalDownloads = Cardinality(RowsOf(downloads, m))]
            ELSE Reply(Begin(r, "dlstats", Anonymous, m), 500, "error")]
    /\ UNCHANGED <<models, facts, rest>>

\* the fact table and the cached counter of a total
TableOf(k) ==
    CASE k = "totalViews" -> model_views
      [] k = "totalDownloads" -> downloads
      [] k = "totalLikes" -> likes
      [] k = "totalComments" -> comments

CounterOf(k) ==
    CASE k = "totalViews" -> "view_count"
      [] k = "totalDownloads" -> "download_count"
      [] k = "totalLikes" -> "like_count"
      [] k = "totalComments" -> "comment_count"

\* a total taken from the cached counter of the model
CountCached(k, m) == IF Live(m) THEN models[m][CounterOf(k)] ELSE 0

\* prisma.<fact>.count({where: {modelId}})
CountWhere(k, m) == Cardinality(RowsOf(TableOf(k), m))

\* the creator of the model has the admin role
CreatorIsAdmin(m) == profiles[models[m].user_id] = "ADMIN"

\* findFirst({id, OR: [{creatorId: req.user.id}, {creator: {role: 'admin'}}]})
StatsModelFound(u, m) == Live(m) /\ (models[m].user_id = u \/ CreatorIsAdmin(m))

\* GET /model/:id of the statistics routes: parseInt, then the lookup
ModelStatsStart(r, u, m) ==
    /\ CanStart(r)
    /\ reqs' = [reqs EXCEPT ![r] =
          IF m = NaNId THEN Reply(Begin(r, "stats", u, m), 400, "invalid")
          ELSE IF ~StatsModelFound(u, m)
               THEN Reply(Begin(r, "stats", u, m), 404, "notfound")
               ELSE [Begin(r, "stats", u, m) EXCEPT !.pc = "count"]]
    /\ UNCHANGED <<models, facts, rest>>

\* one of the counts of Promise.all completes; they complete in any order
ModelStatsCount(r, k) ==
    /\ At(r, "stats", "count")
    /\ reqs[r].stats[k] = -1
    /\ \E ok \in BOOLEAN :
         reqs' = [reqs EXCEPT ![r] =
            IF ok THEN [reqs[r] EXCEPT !.stats[k] = CountWhere(k, reqs[r].model)]
            ELSE Reply([reqs[r] EXCEPT !.stats = NoStats], 500, "error")]
    /\ UNCHANGED <<models, facts, rest>>

\* the recent views and downloads are read, then the response is sent
ModelStatsReply(r) ==
    /\ At(r, "stats", "count")
    /\ \A k \in StatKinds : reqs[r].stats[k] # -1
    /\ \E ok \in BOOLEAN :
         reqs' = [reqs EXCEPT ![r] =
            IF ok THEN Reply(reqs[r], 200, "stats")
            ELSE Reply([reqs[r] EXCEPT !.stats = NoStats], 500, "error")]
    /\ UNCHANGED <<models, facts, rest>>

\* ---------------------------------------------------------------- model lists
\* a username that names no user
UnknownUser == NumUsers + 1

\* GET /models: findMany({where: {isPublic: true, ...}}) and the count
ListModels(r, u) ==
    /\ CanStart(r)
    /\ \E ok \in BOOLEAN :
         reqs' = [reqs EXCEPT ![r] =
            IF ok
            THEN [Begin(r, "list", u, 0) EXCEPT
                     !.pc = "reply", !.returned = {Shown(m) : m \in {k \in Models : PublicModel(k)}}]
            ELSE Reply(Begin(r, "list", u, 0), 500, "error")]
    /\ UNCHANGED <<models, facts, rest>>

\* GET /models: the like status of a signed-in requester, then the response
ListReply(r) ==
    /\ At(r, "list", "reply")
    /\ \E ok \in BOOLEAN :
         reqs' = [reqs EXCEPT ![r] =
            IF ok \/ reqs[r].user = Anonymous THEN Reply(reqs[r], 200, "list")
            ELSE Reply([reqs[r] EXCEPT !.returned = {}], 500, "error")]
    /\ UNCHANGED <<models, facts, rest>>

\* GET /users/:username/models: user.findUnique({username})
UserModelsStart(r, u, owner) ==
    /\ CanStart(r)
    /\ \E ok \in BOOLEAN :
         reqs' = [reqs EXCEPT ![r] =
            IF ~ok THEN Reply([Begin(r, "usermodels", u, 0) EXCEPT !.whose = owner], 500, "error")
            ELSE IF owner \notin Users
                 THEN Reply([Begin(r, "usermodels", u, 0) EXCEPT !.whose = owner], 404, "notfound")
                 ELSE [Begin(r, "usermodels", u, 0) EXCEPT !.whose = owner, !.pc = "find"]]
    /\ UNCHANGED <<models, facts, rest>>

\* GET /users/:username/models: findMany({where: {userId, isPublic: true}})
UserModelsFind(r) ==
    /\ At(r, "usermodels", "find")
    /\ \E ok \in BOOLEAN :
         reqs' = [reqs EXCEPT ![r] =
            IF ok
            THEN [reqs[r] EXCEPT
                     !.pc = "reply",
                     !.returned = {Shown(m) : m \in {k \in Models :
                                      PublicModel(k) /\ models[k].user_id = reqs[r].whose}}]
            ELSE Reply(reqs[r], 500, "error")]
    /\ UNCHANGED <<models, facts, rest>>

\* GET /users/:username/models: the count, then the response
UserModelsReply(r) ==
    /\ At(r, "usermodels", "reply")
    /\ \E ok \in BOOLEAN :
         reqs' = [reqs EXCEPT ![r] =
            IF ok THEN Reply(reqs[r], 200, "list")
            ELSE Reply([reqs[r] EXCEPT !.returned = {}], 500, "error")]
    /\ UNCHANGED <<models, facts, rest>>

\* ---------------------------------------------------------------- orders
\* CHECK (status IN ('pending', 'completed', 'failed', 'refunded'))
OrderStatuses == {"pending", "completed", "failed", "refunded"}

\* the status an insert or update may name: one of the four, none, or another word
StatusInputs == OrderStatuses \cup {"unset", "cancelled"}

\* status VARCHAR(20) DEFAULT 'pending'
StatusOr(status, default) == IF status = "unset" THEN default ELSE status

\* the id gen_random_uuid gives the next row
NextOrderId == Cardinality(orders) + 1

\* insert into orders by user u: "Users can create orders" checks the row's
\* user_id, the foreign key the model, the CHECK the status
InsertOrder(u, m, status) ==
    /\ NextOrderId <= NumOrders
    /\ Live(m)
    /\ StatusOr(status, "pending") \in OrderStatuses
    /\ orders' = orders \cup
          {[id |-> NextOrderId, user_id |-> u, model_id |-> m,
            status |-> StatusOr(status, "pending")]}
    /\ UNCHANGED <<models, facts, reqs, profiles, usernames, follows>>

\* update orders set status by user u: "Users can update own orders" lets the
\* statement see the user's own rows, the CHECK limits the new status
UpdateOrder(u, id, status) ==
    /\ \E o \in orders :
         /\ o.id = id
         /\ o.user_id = u
         /\ StatusOr(status, o.status) \in OrderStatuses
         /\ orders' = (orders \ {o}) \cup {[o EXCEPT !.status = StatusOr(status, o.status)]}
    /\ UNCHANGED <<models, facts, reqs, profiles, usernames, follows>>

\* ---------------------------------------------------------------- follows
\* a row of public.follows; the id is the uuid generated for the insert
FollowRow(id, u, target) == [id |-> id, follower_id |-> u, following_id |-> target]

\* the rows of the ordered pair (follower, followed)
FollowsOf(u, target) ==
    {row \in follows : row.follower_id = u /\ row.following_id = target}

\* POST /users/:userId/follow: the requester may not follow themselves
FollowStart(r, u, target) ==
    /\ CanStart(r)
    /\ reqs' = [reqs EXCEPT ![r] =
          IF u = target
          THEN Reply([Begin(r, "follow", u, 0) EXCEPT !.whose = target], 400, "self")
          ELSE [Begin(r, "follow", u, 0) EXCEPT !.whose = target, !.pc = "findUser"]]
    /\ UNCHANGED <<models, facts, profiles, usernames, orders, follows>>

\* user.findUnique({id: userId})
FollowFindUser(r) ==
    /\ At(r, "follow", "findUser")
    /\ reqs' = [reqs EXCEPT ![r] =
          IF reqs[r].whose \notin Users THEN Reply(reqs[r], 404, "notfound")
          ELSE [reqs[r] EXCEPT !.pc = "findFollow"]]
    /\ UNCHANGED <<models, facts, profiles, usernames, orders, follows>>

\* follow.findUnique({followerId_followingId})
FollowFindExisting(r) ==
    /\ At(r, "follow", "findFollow")
    /\ reqs' = [reqs EXCEPT ![r] =
          IF FollowsOf(reqs[r].user, reqs[r].whose) # {}
          THEN Reply(reqs[r], 409, "already")
          ELSE [reqs[r] EXCEPT !.pc = "write"]]
    /\ UNCHANGED <<models, facts, profiles, usernames, orders, follows>>

\* the follows table without its UNIQUE constraint
NoFollowConstraint(u, target) == FALSE

\* UNIQUE(follower_id, following_id) rejects the insert
FollowUniqueViolation(u, target) == FollowsOf(u, target) # {}

\* follow.create
FollowCreate(r) ==
    /\ At(r, "follow", "write")
    /\ \E ok \in BOOLEAN :
         IF ok /\ ~FollowUniqueViolation(reqs[r].user, reqs[r].whose)
         THEN /\ follows' = follows \cup {FollowRow(r, reqs[r].user, reqs[r].whose)}
              /\ reqs' = [reqs EXCEPT ![r] = [Reply(reqs[r], 200, "followed") EXCEPT !.rowed = TRUE]]
         ELSE /\ reqs' = [reqs EXCEPT ![r] =
                    Reply(reqs[r], 500, IF ok THEN "conflict" ELSE "error")]
              /\ UNCHANGED follows
    /\ UNCHANGED <<models, facts, profiles, usernames, orders>>

\* a delete that succeeds whether or not a row matched
FollowRowDeletedAlways(u, target) == TRUE

\* follow.delete({followerId_followingId}) deletes a row (it throws when there is none)
FollowRowDeleted(u, target) == FollowsOf(u, target) # {}

\* DELETE /users/:userId/follow
Unfollow(r, u, target) ==
    /\ CanStart(r)
    /\ \E ok \in BOOLEAN :
         IF ok /\ FollowRowDeleted(u, target)
         THEN /\ follows' = follows \ FollowsOf(u, target)
              /\ reqs' = [reqs EXCEPT ![r] =
                    Reply([Begin(r, "unfollow", u, 0) EXCEPT !.whose = target], 200, "unfollowed")]
         ELSE /\ reqs' = [reqs EXCEPT ![r] =
                    Reply([Begin(r, "unfollow", u, 0) EXCEPT !.whose = target], 500,
                          IF ok THEN "gone" ELSE "error")]
              /\ UNCHANGED follows
    /\ UNCHANGED <<models, facts, profiles, usernames, orders>>

\* ---------------------------------------------------------------- specifications
IsPublicInputs == {"true", "false", "unset"}

\* the handlers, for requests of slots R by users U with ids M
\* ---------------------------------------------------------------- profiles (supabase.js, AuthProvider)
\* user.user_metadata.username and the local part of user.email; "" is absent
MetadataNames == {"", "Ann"}
EmailNames == {"", "ann"}

ToLowerCase(str) == IF str = "Ann" THEN "ann" ELSE str

\* (user?.user_metadata?.username || user?.email?.split('@')[0] || 'user').toLowerCase()
BaseName(metadata, email) ==
    ToLowerCase(IF metadata # "" THEN metadata ELSE IF email # "" THEN email ELSE "user")

\* username VARCHAR(50) UNIQUE: another row already carries the name
UsernameTaken(u, name) ==
    \E v \in Users \ {u} : usernames[v].st = "live" /\ usernames[v].username = name

\* upsert(payload, {onConflict: 'id'}): the row of u is inserted or updated
Upsert(u, username, display_name) ==
    [usernames EXCEPT ![u] = Profile(username, display_name)]

\* every error of the create attempt is retried
RetriedAlways(code) == TRUE

\* if (e?.code === '23505') { attempt += 1; continue }
Retried(code) == code = "23505"

\* while (attempt < 3)
InLoop(attempt) == attempt < 3

\* the caller's getProfile: ensureProfile is called when no profile came back
AuthGetProfile(r, u, metadata, email) ==
    /\ CanStart(r)
    /\ reqs' = [reqs EXCEPT ![r] =
          IF usernames[u].st = "live"
          THEN Reply(Begin(r, "ensure", u, 0), 0, "profile")
          ELSE [Begin(r, "ensure", u, 0) EXCEPT
                   !.pc = "check", !.base = BaseName(metadata, email)]]
    /\ UNCHANGED <<models, facts, rest>>

\* const existing = await getProfile(user.id); if (existing) return existing
EnsureCheck(r) ==
    /\ At(r, "ensure", "check")
    /\ reqs' = [reqs EXCEPT ![r] =
          IF usernames[reqs[r].user].st = "live"
          THEN Reply(@, 0, "existing")
          ELSE [@ EXCEPT !.pc = "create", !.attempt = 0]]
    /\ UNCHANGED <<models, facts, rest>>

\* one pass of the loop: updateProfile with the candidate username
EnsureCreate(r, sfx, ok) ==
    /\ At(r, "ensure", "create")
    /\ InLoop(reqs[r].attempt)
    /\ LET rq == reqs[r]
           u == rq.user
           candidate == IF rq.attempt = 0 THEN <<rq.base, 0>> ELSE <<rq.base, sfx>>
           code == IF ~ok THEN "other"
                   ELSE IF UsernameTaken(u, candidate) THEN "23505" ELSE "none"
           called == [rq EXCEPT !.calls = @ + 1, !.code = code]
       IN  IF code = "none"
           THEN /\ usernames' = Upsert(u, candidate, candidate)
                /\ profiles' = [profiles EXCEPT ![u] = "creator"]
                /\ reqs' = [reqs EXCEPT ![r] = Reply(called, 0, "created")]
           ELSE /\ reqs' = [reqs EXCEPT ![r] =
                      IF Retried(code)
                      THEN [called EXCEPT !.attempt = @ + 1]
                      ELSE Reply(called, 0, "error")]
                /\ UNCHANGED <<profiles, usernames>>
    /\ UNCHANGED <<models, facts, orders, follows>>

\* the final fallback: updateProfile with baseName followed by Date.now()
EnsureFallback(r, stamp, ok) ==
    /\ At(r, "ensure", "create")
    /\ ~InLoop(reqs[r].attempt)
    /\ LET rq == reqs[r]
           u == rq.user
           candidate == <<rq.base, stamp>>
           code == IF ~ok THEN "other"
                   ELSE IF UsernameTaken(u, candidate) THEN "23505" ELSE "none"
           called == [rq EXCEPT !.calls = @ + 1, !.code = code]
       IN  IF code = "none"
           THEN /\ usernames' = Upsert(u, candidate, <<rq.base, 0>>)
                /\ profiles' = [profiles EXCEPT ![u] = "creator"]
                /\ reqs' = [reqs EXCEPT ![r] = Reply(called, 0, "created")]
           ELSE /\ reqs' = [reqs EXCEPT ![r] = Reply(called, 0, "error")]
                /\ UNCHANGED <<profiles, usernames>>
    /\ UNCHANGED <<models, facts, orders, follows>>

\* AuthProvider.updateProfile: the profile form's upsert of the user's own row
EditProfile(u, name) ==
    /\ ~UsernameTaken(u, name)
    /\ usernames' = Upsert(u, name, name)
    /\ UNCHANGED <<models, facts, reqs, profiles, orders, follows>>


LikeNext(R, U, M) ==
    \E r \in R :
        \/ \E u \in U, m \in M : LikeStart(r, u, m)
        \/ LikeFindExisting(r)
        \/ LikeDelete(r)
        \/ LikeCreate(r)

CommentNext(R, U, M, V) ==
    \E r \in R :
        \/ \E u \in U, m \in M, valid \in V : CommentStart(r, u, m, valid)
        \/ CommentCreate(r)

DownloadNext(R, U, M) ==
    \E r \in R :
        \/ \E u \in U, m \in M : DownloadStart(r, u, m)
        \/ DownloadInsert(r)
        \/ DownloadFile(r)

PageNext(R, U, M) ==
    \E r \in R :
        \/ \E u \in U, m \in M : FetchModelDetails(r, u, m)
        \/ HandleDownload(r)
        \/ HandleDownloadInsert(r)
        \/ HandleDownloadUpdate(r)

ViewNext(R, U, M) ==
    \E r \in R :
        \/ \E u \in U, m \in M : ViewStart(r, u, m)
        \/ ViewUpdate(r)

OwnerNext(R, U, M, V) ==
    \E r \in R :
        \/ \E u \in U, m \in M, valid \in V, ip \in IsPublicInputs :
              PutStart(r, u, m, valid, ip)
        \/ PutWrite(r)
        \/ \E u \in U, m \in M, file \in V : ThumbnailStart(r, u, m, file)
        \/ ThumbnailWrite(r)
        \/ \E u \in U, m \in M, files \in V : PreviewsStart(r, u, m, files)
        \/ PreviewsWrite(r)
        \/ \E u \in U, m \in M \ {NaNId}, ip \in IsPublicInputs : StatusStart(r, u, m, ip)
        \/ StatusWrite(r)

UploadNext(R, U, V) ==
    \E r \in R :
        \/ \E u \in U, valid \in V, ip \in IsPublicInputs : UploadModel(r, u, valid, ip)
        \/ \E u \in U, valid \in V : HandleSubmit(r, u, valid)
        \/ SubmitModelFile(r)
        \/ SubmitThumbnail(r)
        \/ SubmitInsert(r)

StatsNext(R, U, M) ==
    \E r \in R :
        \/ \E m \in M \ {NaNId} : DownloadStats(r, m)
        \/ \E u \in U, m \in M : ModelStatsStart(r, u, m)
        \/ \E k \in StatKinds : ModelStatsCount(r, k)
        \/ ModelStatsReply(r)

ListNext(R, U) ==
    \E r \in R :
        \/ \E u \in U : ListModels(r, u)
        \/ ListReply(r)
        \/ \E u \in U, owner \in Users \cup {UnknownUser} : UserModelsStart(r, u, owner)
        \/ UserModelsFind(r)
        \/ UserModelsReply(r)

OrderNext(U, M) ==
    \/ \E u \in U, m \in M, status \in StatusInputs : InsertOrder(u, m, status)
    \/ \E u \in U, id \in 1..NumOrders, status \in StatusInputs : UpdateOrder(u, id, status)

FollowNext(R, U, T) ==
    \E r \in R :
        \/ \E u \in U, target \in T : FollowStart(r, u, target)
        \/ FollowFindUser(r)
        \/ FollowFindExisting(r)
        \/ FollowCreate(r)

UnfollowNext(R, U, T) ==
    \E r \in R, u \in U, target \in T : Unfollow(r, u, target)

SubmitNext(R, U, V) ==
    \E r \in R :
        \/ \E u \in U, valid \in V : HandleSubmit(r, u, valid)
        \/ SubmitModelFile(r)
        \/ SubmitThumbnail(r)
        \/ SubmitInsert(r)

DeleteNext(R, U, M) ==
    \E r \in R :
        \/ \E u \in U, m \in M : DeleteStart(r, u, m)
        \/ DeleteWrite(r)

EnsureNext(R, U, Meta, Email) ==
    \E r \in R :
        \/ \E u \in U, metadata \in Meta, email \in Email :
              AuthGetProfile(r, u, metadata, email)
        \/ EnsureCheck(r)
        \/ \E sfx \in 1..NumSuffixes, ok \in BOOLEAN : EnsureCreate(r, sfx, ok)
        \/ \E stamp \in 1..NumSuffixes, ok \in BOOLEAN : EnsureFallback(r, stamp, ok)

EditNext(U) ==
    \E u \in U, name \in Names : EditProfile(u, name)

\* some users have a profile row, the usernames distinct
InitProfiles ==
    /\ models = [m \in Models |-> NoRow(m)]
    /\ likes = {}
    /\ comments = {}
    /\ downloads = {}
    /\ model_views = {}
    /\ reqs = [r \in Reqs |-> IdleReq]
    /\ profiles = [u \in Users |-> "USER"]
    /\ usernames \in [Users -> {NoProfile} \cup {Profile(n, n) : n \in Names}]
    /\ \A u \in Users : usernames[u].st = "live" => ~UsernameTaken(u, usernames[u].username)
    /\ orders = {}
    /\ follows = {}

Init == InitWith(BOOLEAN, BOOLEAN, BOOLEAN)

\* the requests that create and delete facts
Next ==
    \/ LikeNext(MixedReqs, Users, Models)
    \/ CommentNext(MixedReqs, Users, Models, {TRUE})
    \/ DownloadNext(MixedReqs, Users, Models)
    \/ PageNext(MixedReqs, Users, Models)
    \/ ViewNext(MixedReqs, {Anonymous}, Models)

Spec == Init /\ [][Next]_vars

\* like requests on public and private models
SpecLike == InitWith(BOOLEAN, {TRUE}, {TRUE}) /\ [][LikeNext(Reqs, Users, Models)]_vars

\* ---------------------------------------------------------------- C1
\* C1: in every state, for every model and every counter kind, the cached
\* counter equals the number of fact rows of that kind referencing the model.
CountersMatchFacts ==
    \A m \in Models :
        Live(m) =>
            /\ models[m].like_count = Cardinality(RowsOf(likes, m))
            /\ models[m].comment_count = Cardinality(RowsOf(comments, m))
            /\ models[m].download_count = Cardinality(RowsOf(downloads, m))
            /\ models[m].view_count = Cardinality(RowsOf(model_views, m))

\* ---------------------------------------------------------------- C2
\* N overlapping like requests by N distinct users: the user of slot r is r
DistinctLikeNext ==
    \E r \in Reqs :
        \/ \E m \in Models \cup {MissingId} : LikeStart(r, r, m)
        \/ LikeFindExisting(r)
        \/ LikeCreate(r)

SpecDistinctLikes == InitWith(BOOLEAN, {TRUE}, {TRUE}) /\ [][DistinctLikeNext]_vars

\* the like requests on m that answered "Model liked"
Liked(m) == {r \in Reqs : reqs[r].kind = "like" /\ reqs[r].model = m /\ reqs[r].out = "liked"}

\* C2: like requests by distinct users that have not liked the model leave one
\* like row per request that answered liked, and a like counter increased by
\* exactly their number, under every interleaving.
LikesCountedOnce ==
    \A m \in Models :
        Live(m) =>
            /\ RowsOf(likes, m) = {Row(r, m, reqs[r].user) : r \in Liked(m)}
            /\ models[m].like_count = Cardinality(Liked(m))

\* all N requests liked the same model
LikesCountedOnceWitness ==
    \E m \in Models :
        /\ \A r \in Reqs : r \in Liked(m)
        /\ models[m].like_count = NumReqs
        /\ Cardinality(RowsOf(likes, m)) = NumReqs

\* ---------------------------------------------------------------- C4
\* C4: at most one like row exists per (model, user); a second create for the
\* pair (two overlapping requests that both found no like) is rejected and
\* leaves the like counter at the number of like rows.
OneLikePerPair ==
    /\ \A a \in likes, b \in likes :
          (a.model_id = b.model_id /\ a.user_id = b.user_id) => a = b
    /\ \A m \in Models : Live(m) => models[m].like_count = Cardinality(RowsOf(likes, m))
    /\ \A r \in Reqs :
          reqs[r].out = "conflict" =>
              /\ reqs[r].resp = 500
              /\ ~reqs[r].rowed
              /\ \A row \in likes : row.id # r

\* two requests of one user overlapped: one liked, the other was rejected
OneLikePerPairWitness ==
    \E r1 \in Reqs, r2 \in Reqs :
        /\ reqs[r1].out = "liked"
        /\ reqs[r2].out = "conflict"
        /\ reqs[r1].user = reqs[r2].user
        /\ reqs[r1].model = reqs[r2].model
        /\ models[reqs[r1].model].like_count = 1

\* ---------------------------------------------------------------- C5
\* C5: no cached counter of any model is below zero, also when more unlike
\* requests are issued than likes were created.
CountersNonNegative ==
    \A m \in Models :
        /\ models[m].like_count >= 0
        /\ models[m].comment_count >= 0
        /\ models[m].download_count >= 0
        /\ models[m].view_count >= 0

\* two unlike requests of one user saw the same like row; the second found it gone
CountersNonNegativeWitness ==
    \E r1 \in Reqs, r2 \in Reqs :
        /\ reqs[r1].out = "unliked"
        /\ reqs[r2].out = "gone"
        /\ reqs[r1].user = reqs[r2].user
        /\ reqs[r1].model = reqs[r2].model
        /\ models[reqs[r1].model].like_count = 0

\* ---------------------------------------------------------------- C6
\* no request is being handled
Quiet == \A r \in Reqs : reqs[r].pc \in {"idle", "done"}

\* like requests handled one after the other
SequentialLikeNext ==
    \E r \in Reqs :
        \/ Quiet /\ \E u \in Users, m \in Models : LikeStart(r, u, m)
        \/ LikeFindExisting(r)
        \/ LikeDelete(r)
        \/ LikeCreate(r)

SpecSequentialLikes == InitWith(BOOLEAN, {TRUE}, {TRUE}) /\ [][SequentialLikeNext]_vars

\* the like requests of u on m that were answered 200, in slot (= arrival) order
Toggles(u, m) ==
    {r \in Reqs : /\ reqs[r].kind = "like" /\ reqs[r].user = u /\ reqs[r].model = m
                  /\ reqs[r].out \in {"liked", "unliked"}}

TogglesBefore(r) == {q \in Toggles(reqs[r].user, reqs[r].model) : q < r}

\* C6: starting from like_count = 0, the requests of a user on a public model
\* alternate: the first likes (one like row of the user, counted once), the
\* next unlikes (no like row of the user, counter back), and so on.
LikeThenUnlikeRestores ==
    \A m \in Models : Live(m) =>
        /\ \A u \in Users :
              /\ \A r \in Toggles(u, m) :
                    reqs[r].out = (IF Cardinality(TogglesBefore(r)) % 2 = 0
                                   THEN "liked" ELSE "unliked")
              /\ Cardinality({row \in RowsOf(likes, m) : row.user_id = u})
                    = Cardinality(Toggles(u, m)) % 2
        /\ models[m].like_count =
              Cardinality({u \in Users : Cardinality(Toggles(u, m)) % 2 = 1})

\* A liked the model and then unliked it; nobody else did anything
LikeThenUnlikeRestoresWitness ==
    \E m \in Models, u \in Users :
        /\ reqs[1].out = "liked" /\ reqs[1].user = u /\ reqs[1].model = m
        /\ reqs[2].out = "unliked" /\ reqs[2].user = u /\ reqs[2].model = m
        /\ \A r \in Reqs \ {1, 2} : reqs[r].pc = "idle"
        /\ models[m].like_count = 0
        /\ RowsOf(likes, m) = {}

\* ---------------------------------------------------------------- C7
SpecViews ==
    InitWith(BOOLEAN, {TRUE}, {TRUE})
        /\ [][ViewNext(Reqs, {Anonymous}, Models \cup {MissingId})]_vars

\* the GET /models/:id requests for m that were answered 200
Viewed(m) == {r \in Reqs : reqs[r].kind = "view" /\ reqs[r].model = m /\ reqs[r].out = "model"}

\* C7: overlapping GET /models/:id requests for a model increase its view
\* counter by exactly the number of requests answered, under every interleaving.
ViewsCountedOnce ==
    \A m \in Models : Live(m) => models[m].view_count = Cardinality(Viewed(m))

\* all N requests fetched the model before any of them updated it
ViewsCountedOnceWitness ==
    \E m \in Models :
        /\ \A r \in Reqs : r \in Viewed(m)
        /\ models[m].view_count = NumReqs

\* ---------------------------------------------------------------- C3
\* downloads through the ModelDetail page and through POST /downloads/:modelId
SpecDownloads ==
    InitWith(BOOLEAN, BOOLEAN, BOOLEAN)
        /\ [][PageNext(MixedReqs, Users \cup {Anonymous}, Models)
               \/ DownloadNext(MixedReqs, Users, Models)]_vars

\* the request recorded a download of m and has finished
Downloaded(r, m) ==
    /\ reqs[r].kind \in {"page", "download"}
    /\ reqs[r].model = m
    /\ reqs[r].rowed
    /\ reqs[r].pc = "done"

\* C3: two users download the same model that has no prior downloads, and no
\* other request is made: the download counter is 2 and 2 download rows exist.
TwoDownloadsCountTwo ==
    \A m \in Models, r1 \in Reqs, r2 \in Reqs :
        ( /\ r1 # r2
          /\ Downloaded(r1, m) /\ Downloaded(r2, m)
          /\ reqs[r1].user # reqs[r2].user
          /\ \A r \in Reqs \ {r1, r2} : reqs[r].pc = "idle" )
        => /\ models[m].download_count = 2
           /\ Cardinality(RowsOf(downloads, m)) = 2

\* ---------------------------------------------------------------- C8
\* downloads of free public models that have a file, by signed-in users
SpecDownloadTracking ==
    InitWith({TRUE}, {TRUE}, {TRUE})
        /\ [][PageNext(MixedReqs, Users, Models)
               \/ DownloadNext(MixedReqs, Users, Models)]_vars

\* C8: when the counter update fails after the download row was committed,
\* the download still starts and the row stays in the table.
CounterFailureIsNotFatal ==
    \A r \in Reqs :
        (reqs[r].rowed /\ reqs[r].ctrfail) =>
            /\ reqs[r].out = "started"
            /\ Row(r, reqs[r].model, reqs[r].user) \in downloads

\* a download whose row was committed and whose counter update failed
CounterFailureIsNotFatalWitness ==
    \E r \in Reqs :
        /\ reqs[r].rowed /\ reqs[r].ctrfail /\ reqs[r].pc = "done"
        /\ models[reqs[r].model].download_count = 1

\* ---------------------------------------------------------------- C9
\* like, comment and download requests of one user for existing, private and
\* missing models
SpecLookups ==
    InitWith(BOOLEAN, {TRUE}, {TRUE})
        /\ [][\/ LikeNext(MixedReqs, {CHOOSE u \in Users : TRUE}, IdInputs)
              \/ CommentNext(MixedReqs, {CHOOSE u \in Users : TRUE}, IdInputs, BOOLEAN)
              \/ DownloadNext(MixedReqs, {CHOOSE u \in Users : TRUE}, IdInputs \ {NaNId})]_vars

FactKinds == {"like", "comment", "download"}

\* request r arrives in this step, for a model that is missing or not public
ArrivesForNoModel(r) ==
    /\ reqs[r].pc = "idle"
    /\ reqs'[r].pc # "idle"
    /\ reqs'[r].kind \in FactKinds
    /\ reqs'[r].model # NaNId
    /\ ~(Live(reqs'[r].model) /\ models[reqs'[r].model].is_public)

\* C9 as stated: a like, comment or download request for a model that does not
\* exist or is not public is answered 404; it creates no fact row and changes
\* no counter.
NotFoundIsAnswered404 ==
    [][\A r \in Reqs :
          ArrivesForNoModel(r) =>
              /\ reqs'[r].pc = "done"
              /\ reqs'[r].resp = 404
              /\ ~reqs'[r].rowed
              /\ facts' = facts
              /\ models' = models]_vars

\* C9: a like, comment or download request for a model that does not exist or
\* is not public is answered with a failure at once, 404, or 400 when it is a
\* comment whose content fails validation; it creates no fact row and changes
\* no counter.
NotFoundIsReported ==
    [][\A r \in Reqs :
          ArrivesForNoModel(r) =>
              /\ reqs'[r].pc = "done"
              /\ \/ reqs'[r].resp = 404
                 \/ reqs'[r].resp = 400 /\ reqs'[r].kind = "comment"
              /\ ~reqs'[r].rowed
              /\ facts' = facts
              /\ models' = models]_vars

\* one request was refused 404 for a private model, and a comment for a
\* missing model was refused 400
NotFoundIsReportedWitness ==
    \E r1 \in Reqs, r2 \in Reqs :
        /\ reqs[r1].kind \in FactKinds /\ reqs[r1].resp = 404
        /\ Live(reqs[r1].model) /\ ~models[reqs[r1].model].is_public
        /\ reqs[r2].kind = "comment" /\ reqs[r2].resp = 400
        /\ reqs[r2].model = MissingId
        /\ likes = {} /\ comments = {} /\ downloads = {}

\* ---------------------------------------------------------------- C10
\* the owner's updates next to page views, which move a counter
SpecOwnerUpdates ==
    InitWith({TRUE}, {TRUE}, {TRUE})
        /\ [][\/ OwnerNext(MixedReqs, Users, Models, {TRUE})
              \/ ViewNext(MixedReqs, {Anonymous}, Models)]_vars

OwnerKinds == {"put", "thumbnail", "previews", "status"}

\* C10: a step of a metadata update, a thumbnail or preview upload or a status
\* change leaves the four cached counters of every model unchanged.
OwnerUpdatesKeepCounters ==
    [][\A r \in Reqs :
          (reqs'[r] # reqs[r] /\ reqs'[r].kind \in OwnerKinds) =>
              \A m \in Models : Counters(m)' = Counters(m)]_vars

\* a model was viewed, then its owner's PUT was applied
OwnerUpdatesKeepCountersWitness ==
    \E r \in Reqs, m \in Models :
        /\ reqs[r].kind = "put" /\ reqs[r].out = "updated" /\ reqs[r].model = m
        /\ models[m].title = 1
        /\ models[m].view_count = 1

\* ---------------------------------------------------------------- C11
\* models are created, then viewed and commented
SpecUploads ==
    InitNoModels
        /\ [][\/ UploadNext(MixedReqs, Users, BOOLEAN)
              \/ ViewNext(MixedReqs, {Anonymous}, Models)
              \/ CommentNext(MixedReqs, {CHOOSE u \in Users : TRUE}, Models, {TRUE})]_vars

\* C11: in the step that creates a model, all its cached counters are zero
\* and no like, comment, download or view row references it.
NewModelsStartAtZero ==
    [][\A m \in Models :
          (models[m].st = "none" /\ models'[m].st = "live") =>
              /\ Counters(m)' = <<0, 0, 0, 0>>
              /\ RowsOf(likes', m) = {}
              /\ RowsOf(comments', m) = {}
              /\ RowsOf(downloads', m) = {}
              /\ RowsOf(model_views', m) = {}]_vars

\* a request created a model; the model exists, uncounted and unreferenced
NewModelsStartAtZeroWitness ==
    \E r \in Reqs :
        /\ reqs[r].kind \in {"upload", "submit"}
        /\ reqs[r].out = "uploaded"
        /\ Live(reqs[r].model)
        /\ Counters(reqs[r].model) = <<0, 0, 0, 0>>
        /\ \A r2 \in Reqs \ {r} : reqs[r2].pc = "idle"

\* ---------------------------------------------------------------- C12
\* downloads by both routes next to the owner's deletion of the model
SpecAppendOnly ==
    InitWith({TRUE}, {TRUE}, {TRUE})
        /\ [][\/ DownloadNext(MixedReqs, Users, Models)
              \/ PageNext(MixedReqs, Users, Models)
              \/ DeleteNext(MixedReqs, Users, Models)]_vars

\* C12: in every step that leaves a model in existence, every download row
\* and every view row that referenced the model still references it.
DownloadsAndViewsAreAppendOnly ==
    [][\A m \in Models :
          (Live(m) /\ Live(m)') =>
              /\ RowsOf(downloads, m) \subseteq RowsOf(downloads', m)
              /\ RowsOf(model_views, m) \subseteq RowsOf(model_views', m)]_vars

\* one user downloaded an existing model twice; both rows are kept
DownloadsAndViewsAreAppendOnlyWitness ==
    \E m \in Models, a \in downloads, b \in downloads :
        /\ Live(m)
        /\ a # b
        /\ a.model_id = m /\ b.model_id = m
        /\ a.user_id = b.user_id

\* ---------------------------------------------------------------- C13
\* like, comment and download requests next to the owner's deletion of the model
SpecDelete ==
    InitWith({TRUE}, {TRUE}, {TRUE})
        /\ [][\/ LikeNext(MixedReqs, Users, Models)
              \/ CommentNext(MixedReqs, Users, Models, {TRUE})
              \/ DownloadNext(MixedReqs, Users, Models)
              \/ DeleteNext(MixedReqs, Users, Models)]_vars

\* C13: every like, comment, download and view row references a model that
\* exists, whatever the interleaving of a deletion with the fact requests.
FactsReferenceExistingModels ==
    \A row \in likes \cup comments \cup downloads \cup model_views : Live(row.model_id)

\* a request recorded a fact for a model that was deleted afterwards, and the
\* row went with the model
FactsReferenceExistingModelsWitness ==
    \E r \in Reqs, d \in Reqs :
        /\ reqs[r].kind \in FactKinds /\ reqs[r].rowed
        /\ reqs[d].kind = "delete" /\ reqs[d].out = "deleted"
        /\ reqs[d].model = reqs[r].model
        /\ likes = {} /\ comments = {} /\ downloads = {}

\* ---------------------------------------------------------------- C14
\* statistics requests next to views, which move a counter without a row, and
\* downloads, which add rows
SpecStats ==
    InitWith({TRUE}, {TRUE}, {TRUE})
        /\ [][\/ StatsNext(MixedReqs, {CHOOSE u \in Users : TRUE}, Models)
              \/ ViewNext(MixedReqs, {Anonymous}, Models)
              \/ DownloadNext(MixedReqs, {CHOOSE u \in Users : TRUE}, Models)]_vars

\* the totals request r has after this step and did not have before it
TotalsTaken(r) == {k \in StatKinds : reqs[r].stats[k] = -1 /\ reqs'[r].stats[k] # -1}

\* C14: every total a statistics request takes is the number of fact rows of
\* its kind that reference the model when the request reads the table, and a
\* response carries the totals taken; the cached counters play no part.
StatsCountFactRows ==
    [][\A r \in Reqs :
          /\ \A k \in TotalsTaken(r) :
                reqs'[r].stats[k] = Cardinality(RowsOf(TableOf(k), reqs'[r].model))
          /\ (reqs[r].pc = "count" /\ reqs'[r].out = "stats") => reqs'[r].stats = reqs[r].stats]_vars

\* the model was viewed once; the statistics report no view while the cached
\* view counter is 1
StatsCountFactRowsWitness ==
    \E r \in Reqs :
        /\ reqs[r].kind = "stats" /\ reqs[r].out = "stats"
        /\ reqs[r].stats.totalViews = 0
        /\ reqs[r].stats.totalDownloads = 0
        /\ models[reqs[r].model].view_count = 1

\* ---------------------------------------------------------------- C17
\* the read endpoints, for signed-in and anonymous requesters, on public and
\* private models
SpecReads ==
    InitWith(BOOLEAN, {TRUE}, {TRUE})
        /\ [][\/ ViewNext(MixedReqs, Users \cup {Anonymous}, Models)
              \/ ListNext(MixedReqs, Users \cup {Anonymous})]_vars

\* C17: a read endpoint that answers 200 returns a model that is not public
\* only to its owner.
PrivateModelsAreReadByOwnerOnly ==
    \A r \in Reqs :
        reqs[r].resp = 200 =>
            \A row \in reqs[r].returned : row.is_public \/ row.user_id = reqs[r].user

\* ---------------------------------------------------------------- C18
\* the statistics routes for users of every role, next to downloads
SpecStatsAccess ==
    InitWithRoles({TRUE}, {TRUE}, {TRUE}, Roles)
        /\ [][\/ StatsNext(MixedReqs, Users, Models \cup {MissingId})
              \/ DownloadNext(MixedReqs, Users, Models)]_vars

\* the requester may read the statistics of the model
MayReadStats(u, m) == Live(m) /\ (models[m].user_id = u \/ profiles[u] = "ADMIN")

\* C18: the model statistics route takes and returns statistics only for a
\* requester who is the creator of the model or has the admin role; every
\* other requester is answered 404 and gets no statistics.
StatsAreForCreatorOrAdmin ==
    \A r \in Reqs :
        (reqs[r].kind = "stats" /\ ~MayReadStats(reqs[r].user, reqs[r].model)) =>
            /\ reqs[r].pc = "done"
            /\ reqs[r].resp = 404
            /\ reqs[r].stats = NoStats

\* ---------------------------------------------------------------- C19
\* orders for a priced model next to the download requests for it
SpecOrders ==
    InitWith({TRUE}, {FALSE}, {TRUE})
        /\ [][\/ OrderNext(Users, Models)
              \/ DownloadNext(MixedReqs, Users, Models)]_vars

\* C19: an order starts pending, its status stays one of pending, completed,
\* failed, refunded, never returns to pending, and becomes completed only from
\* pending.
OrderStatusMovesForward ==
    [][\A n \in orders' :
          /\ n.status \in OrderStatuses
          /\ (\A o \in orders : o.id # n.id) => n.status = "pending"
          /\ \A o \in orders :
                (o.id = n.id /\ o.status # n.status) =>
                    /\ n.status # "pending"
                    /\ n.status = "completed" => o.status = "pending"]_vars

\* ---------------------------------------------------------------- C20
\* download requests for free and priced public models
SpecPaidDownloads ==
    InitWith({TRUE}, BOOLEAN, {TRUE})
        /\ [][DownloadNext(MixedReqs, Users, Models)]_vars

\* request r arrives in this step: a download of a public, priced model by a
\* user who is not its owner
ArrivesUnpaid(r) ==
    /\ reqs[r].pc = "idle"
    /\ reqs'[r].kind = "download"
    /\ PublicModel(reqs'[r].model)
    /\ ~models[reqs'[r].model].is_free
    /\ models[reqs'[r].model].user_id # reqs'[r].user

\* C20: POST /downloads/:modelId for a public model that is not free, by a
\* user who is not its owner, is answered 403; no download row is inserted
\* and no counter changes.
PaidDownloadIsRefused ==
    [][\A r \in Reqs :
          ArrivesUnpaid(r) =>
              /\ reqs'[r].pc = "done"
              /\ reqs'[r].resp = 403
              /\ ~reqs'[r].rowed
              /\ downloads' = downloads
              /\ models' = models]_vars

\* the owner downloaded the priced model, then another user was refused
PaidDownloadIsRefusedWitness ==
    \E r \in Reqs, q \in Reqs, m \in Models :
        /\ ~models[m].is_free
        /\ reqs[q].kind = "download" /\ reqs[q].model = m /\ reqs[q].out = "file"
        /\ reqs[q].user = models[m].user_id
        /\ q < r
        /\ reqs[r].kind = "download" /\ reqs[r].model = m /\ reqs[r].resp = 403
        /\ reqs[r].user # models[m].user_id
        /\ models[m].download_count = 1
        /\ Cardinality(RowsOf(downloads, m)) = 1

\* ---------------------------------------------------------------- C21
\* updates that hide the model, and deletions, by the owner and by other
\* users, next to comments on the model
SpecOwnership ==
    InitWith({TRUE}, {TRUE}, {TRUE})
        /\ [][\/ \E r \in MixedReqs :
                    \/ \E u \in Users, m \in Models, valid \in BOOLEAN :
                          PutStart(r, u, m, valid, "false")
                    \/ PutWrite(r)
                    \/ \E u \in Users, m \in Models : StatusStart(r, u, m, "false")
                    \/ StatusWrite(r)
              \/ DeleteNext(MixedReqs, Users, Models)
              \/ CommentNext(MixedReqs, {CHOOSE u \in Users : TRUE}, Models, {TRUE})]_vars

ChangeKinds == {"put", "status", "delete"}

\* request r arrives in this step: an update, status change or deletion of an
\* existing model by a user who is not its creator
ArrivesFromStranger(r) ==
    /\ reqs[r].pc = "idle"
    /\ reqs'[r].kind \in ChangeKinds
    /\ Live(reqs'[r].model)
    /\ models[reqs'[r].model].user_id # reqs'[r].user

\* the metadata, visibility and existence of a model
Described(row) == <<row.st, row.title, row.is_public, row.thumbnail_url, row.preview_urls>>

SpecFollows ==
    InitWith({TRUE}, {TRUE}, {TRUE})
        /\ [][FollowNext(Reqs, {u \in Users : u <= 2}, Users \cup {UnknownUser})]_vars

SpecUnfollow ==
    InitWith({TRUE}, {TRUE}, {TRUE})
        /\ [][\/ FollowNext(Reqs, {u \in Users : u <= 2}, {u \in Users : u <= 2})
              \/ UnfollowNext(Reqs, {u \in Users : u <= 2}, {u \in Users : u <= 2})]_vars

\* C23: DELETE /users/:userId/follow answered 200 removes the row of
\* (requester, userId) and no other row; when there is no such row the table
\* is unchanged and the answer is 500; an answer other than 200 changes nothing.
UnfollowRemovesOwnRowOnly ==
    [][\A r \in Reqs :
          (reqs[r].pc = "idle" /\ reqs'[r].kind = "unfollow") =>
              /\ reqs'[r].pc = "done"
              /\ reqs'[r].resp \in {200, 500}
              /\ reqs'[r].resp = 200 =>
                    /\ FollowsOf(reqs'[r].user, reqs'[r].whose) # {}
                    /\ follows' = follows \ FollowsOf(reqs'[r].user, reqs'[r].whose)
              /\ reqs'[r].resp = 500 => follows' = follows
              /\ FollowsOf(reqs'[r].user, reqs'[r].whose) = {} => reqs'[r].resp = 500]_vars

\* two users follow each other; one unfollowed, the other's row is still there
UnfollowRemovesOwnRowOnlyWitness ==
    \E a \in Reqs, b \in Reqs :
        /\ reqs[a].kind = "unfollow" /\ reqs[a].resp = 200
        /\ FollowsOf(reqs[a].user, reqs[a].whose) = {}
        /\ FollowsOf(reqs[a].whose, reqs[a].user) # {}
        /\ reqs[b].kind = "follow" /\ reqs[b].out = "followed"
        /\ reqs[b].user = reqs[a].user /\ reqs[b].whose = reqs[a].whose

\* ---------------------------------------------------------------- C24
\* C24: a POST /downloads/:modelId request that ends with the 500 response
\* 'Failed to download file' has recorded no download row.
FailedDownloadsLeaveNoRow ==
    \A r \in Reqs :
        (reqs[r].kind = "download" /\ reqs[r].out = "filefailed") =>
            /\ ~reqs[r].rowed
            /\ \A row \in downloads : row.id # r

\* ---------------------------------------------------------------- C25
\* downloads from the page of a model with or without a file, by signed-in
\* and anonymous visitors
SpecPageDownloads ==
    InitWith({TRUE}, {TRUE}, BOOLEAN)
        /\ [][PageNext(MixedReqs, Users \cup {Anonymous}, Models)]_vars

Refusals == {"login", "nofile", "failed"}

\* C25: the step of handleDownload that tests the guards writes nothing, and
\* goes on to the insert only for a signed-in user and a model with a file;
\* a handleDownload that ended at a guard has inserted no download row.
GuardedDownloadsWriteNothing ==
    [][\A r \in Reqs :
          /\ (At(r, "page", "page") /\ reqs'[r] # reqs[r]) =>
                /\ models' = models
                /\ facts' = facts
                /\ reqs'[r].pc = "insert" =>
                      (reqs[r].user # Anonymous /\ reqs[r].seen.file_path)
                /\ reqs'[r].pc # "insert" => reqs'[r].out \in Refusals
          /\ (reqs'[r].kind = "page" /\ reqs'[r].out \in Refusals) =>
                /\ ~reqs'[r].rowed
                /\ \A row \in downloads' : row.id # r]_vars

\* an anonymous visitor was sent to the login; a signed-in user's download
\* stopped at the signed URL; the table is empty and the counter is 0
GuardedDownloadsWriteNothingWitness ==
    \E a \in Reqs, b \in Reqs :
        /\ reqs[a].kind = "page" /\ reqs[a].out = "login"
        /\ reqs[b].kind = "page" /\ reqs[b].out = "failed"
        /\ downloads = {}
        /\ \A m \in Models : models[m].download_count = 0

\* ---------------------------------------------------------------- C26
\* submits of the upload form, valid and invalid
SpecSubmit ==
    InitNoModels /\ [][SubmitNext(Reqs, Users, BOOLEAN)]_vars

\* the submits that created a model row
Submitted == {r \in Reqs : reqs[r].kind = "submit" /\ reqs[r].out = "uploaded"}

\* C26: a step of handleSubmit creates a model row only from the state after
\* both storage uploads (the form is uploading, at progress 60); the model rows
\* are those of the submits that succeeded, one each; and a submit that has
\* ended has isUploading false and uploadProgress 0.
SubmitInsertsLast ==
    [][/\ \A m \in Models :
             (models[m].st = "none" /\ models'[m].st = "live") =>
                 \E r \in Reqs :
                     /\ reqs[r].kind = "submit" /\ reqs[r].pc = "insert"
                     /\ reqs[r].isUploading /\ reqs[r].uploadProgress = 60
                     /\ reqs'[r].out = "uploaded" /\ reqs'[r].model = m
       /\ {m \in Models : models'[m].st = "live"} = {reqs'[r].model : r \in Submitted'}
       /\ Cardinality(Submitted') = Cardinality({m \in Models : models'[m].st = "live"})
       /\ \A r \in Reqs :
             (reqs'[r].kind = "submit" /\ reqs'[r].pc = "done") =>
                 (~reqs'[r].isUploading /\ reqs'[r].uploadProgress = 0)]_vars

\* one submit created a model and another failed at a storage upload; both
\* forms are idle again
SubmitInsertsLastWitness ==
    \E a \in Reqs, b \in Reqs :
        /\ a \in Submitted /\ Live(reqs[a].model)
        /\ reqs[b].kind = "submit" /\ reqs[b].out = "failed"
        /\ ~reqs[a].isUploading /\ reqs[a].uploadProgress = 0
        /\ ~reqs[b].isUploading /\ reqs[b].uploadProgress = 0
        /\ Cardinality({m \in Models : Live(m)}) = 1

\* ---------------------------------------------------------------- C27
\* sign-ins of one user, profile edits of every user
SpecEnsure ==
    InitProfiles /\ [][\/ EnsureNext(MixedReqs, {1}, MetadataNames, {"ann"})
                       \/ EditNext(Users)]_vars

\* C27: an invocation of ensureProfile makes at most three updateProfile calls in
\* its loop and one more as the fallback, four in all; every step of an invocation
\* that is creating is one such call; it loops again only after a unique violation
\* (23505) met inside the loop, and any other error ends the invocation at once,
\* nothing written; a finished invocation makes no further call.
EnsureProfileIsBounded ==
    [][\A r \in Reqs :
          LET a == reqs[r]
              b == reqs'[r]
          IN  /\ b.calls <= 4
              /\ b.attempt <= 3
              /\ b.calls <= b.attempt + 1
              /\ b.calls # a.calls =>
                    /\ a.kind = "ensure" /\ a.pc = "create"
                    /\ b.calls = a.calls + 1
                    /\ b.code = "other" =>
                          /\ b.pc = "done" /\ b.out = "error"
                          /\ usernames' = usernames
                    /\ b.pc = "create" =>
                          /\ b.code = "23505"
                          /\ a.attempt < 3
                          /\ b.attempt = a.attempt + 1
              /\ (a.pc = "create" /\ b # a) => b.calls = a.calls + 1
              /\ a.pc = "done" => b = a]_vars

\* one invocation has made its four calls and created the row with the fallback
\* name, another was ended by its first call's error
EnsureProfileIsBoundedWitness ==
    \E r, q \in MixedReqs :
        /\ reqs[r].kind = "ensure" /\ reqs[r].pc = "done"
        /\ reqs[r].calls = 4 /\ reqs[r].out = "created"
        /\ reqs[q].kind = "ensure" /\ reqs[q].pc = "done"
        /\ reqs[q].calls = 1 /\ reqs[q].code = "other" /\ reqs[q].out = "error"

====
